---- MODULE Spec2Model ----
(***************************************************************************)
(* GradientProblemEvaluator (internal/ceres/gradient_problem_evaluator.h)  *)
(* over a GradientProblem (ceres/gradient_problem.h) that owns a           *)
(* FirstOrderFunction (ceres/first_order_function.h).                      *)
(*                                                                         *)
(* Spec      : the evaluator adapter driven by a minimizer, with an        *)
(*             objective that keeps the default NextDirection.             *)
(* SpecLBFGS : an objective that implements the direction-update           *)
(*             capability with the two-loop recursion, driven through the  *)
(*             same adapter, over a caller-owned history.                  *)
(***************************************************************************)
EXTENDS Integers, Sequences, FiniteSets, TLC

VARIABLES
  numParameters,            \* FirstOrderFunction::NumParameters()
  numLocalParameters,       \* GradientProblem::NumLocalParameters()
  hasParameterization,      \* GradientProblem::parameterization_ != nullptr
  overridesNorms,           \* the objective overrides EvaluateGradientNorms
  overridesDirection,       \* the objective overrides NextDirection
  execution_summary,        \* GradientProblemEvaluator::execution_summary_
  now,                      \* the wall clock read by the scoped timers
  halted,                   \* the process was aborted by a failed CHECK
  residualCalls,            \* Evaluate calls made with gradient == NULL
  jacobianCalls,            \* Evaluate calls made with gradient != NULL
  last,                     \* the last call made on the evaluator and its outcome
  gradient_squared_norm,    \* LineSearchMinimizer::State::gradient_squared_norm
  gradient_max_norm,        \* LineSearchMinimizer::State::gradient_max_norm
  history,                  \* caller-owned history slots, oldest first
  approximate_eigenvalue_scale,            \* caller-owned scalar
  search_direction,                        \* caller-owned output vector
  search_direction_dot_current_gradient    \* caller-owned output scalar

vars == <<numParameters, numLocalParameters, hasParameterization, overridesNorms,
          overridesDirection, execution_summary, now, halted, residualCalls,
          jacobianCalls, last, gradient_squared_norm, gradient_max_norm, history,
          approximate_eigenvalue_scale, search_direction,
          search_direction_dot_current_gradient>>

problemVars == <<numParameters, numLocalParameters, hasParameterization,
                 overridesNorms, overridesDirection>>
normVars == <<gradient_squared_norm, gradient_max_norm>>
directionVars == <<history, approximate_eigenvalue_scale, search_direction,
                   search_direction_dot_current_gradient>>
statVars == <<execution_summary, now, residualCalls, jacobianCalls>>

----------------------------------------------------------------------------
(* Bounds *)

MaxParams == 2          \* largest NumParameters() of the wrapped objective
MaxEvaluateCalls == 2   \* Evaluate calls that reach the timers
MaxClock == 3           \* last clock reading
MaxRank == 2            \* capacity m of the caller's history buffer

NULL == "NULL"

----------------------------------------------------------------------------
(* Integer vectors *)

Abs(a) == IF a < 0 THEN -a ELSE a

RECURSIVE SumSeq(_)
SumSeq(s) == IF s = <<>> THEN 0 ELSE Head(s) + SumSeq(Tail(s))

RECURSIVE MaxSeq(_)
MaxSeq(s) == IF s = <<>> THEN 0
             ELSE LET m == MaxSeq(Tail(s)) IN IF Head(s) > m THEN Head(s) ELSE m

\* The vectors of length n the minimizer hands in.
Vectors(n) ==
  {[i \in 1..n |-> c] : c \in {-1, 0, 1}} \cup {[i \in 1..n |-> IF i = 1 THEN -2 ELSE 1]}
Points(n) == {[i \in 1..n |-> 0], [i \in 1..n |-> i]}
Deltas(n) == {[i \in 1..n |-> 1], [i \in 1..n |-> -i]}

SquaredNorm(g) == SumSeq([i \in 1..Len(g) |-> g[i] * g[i]])
MaxNorm(g) == MaxSeq([i \in 1..Len(g) |-> Abs(g[i])])

----------------------------------------------------------------------------
(* ExecutionSummary and ScopedExecutionTimer *)

EvaluatorTotal == "Evaluator::Total"
EvaluatorResidual == "Evaluator::Residual"
EvaluatorJacobian == "Evaluator::Jacobian"

\* ExecutionSummary::IncrementTimeBy: one more call and its elapsed time under
\* the label, whose entry is created by the first call.
IncrementTimeBy(summary, label, elapsed) ==
  IF label \in DOMAIN summary
  THEN [summary EXCEPT ![label] = [calls |-> @.calls + 1, time |-> @.time + elapsed]]
  ELSE [l \in DOMAIN summary \cup {label} |->
          IF l = label THEN [calls |-> 1, time |-> elapsed] ELSE summary[l]]

\* GradientProblemEvaluator::Statistics, read per label.
CallCount(label) ==
  IF label \in DOMAIN execution_summary THEN execution_summary[label].calls ELSE 0
TotalTime(label) ==
  IF label \in DOMAIN execution_summary THEN execution_summary[label].time ELSE 0

\* The label of the second timer of Evaluate.
CallTypeLabelSwapped(gradient) ==
  IF gradient = NULL THEN EvaluatorJacobian ELSE EvaluatorResidual
CallTypeLabel(gradient) ==
  IF gradient = NULL THEN EvaluatorResidual ELSE EvaluatorJacobian

\* The spans the two scoped timers of Evaluate measure. t0..t3 are the four
\* clock readings of one call in program order: total_timer constructed,
\* call_type_timer constructed, call_type_timer destroyed, total_timer
\* destroyed (locals are destroyed in reverse order of construction).
TimerSpansSwapped(t0, t1, t2, t3) == [total |-> t2 - t1, call_type |-> t3 - t0]
TimerSpans(t0, t1, t2, t3) == [total |-> t3 - t0, call_type |-> t2 - t1]

----------------------------------------------------------------------------
(* FirstOrderFunction and GradientProblem *)

\* FirstOrderFunction::EvaluateGradientNorms as the objective in use answers
\* it: the base class returns false, an override answers what it likes.
FunctionGradientNorms(overrideRet) == IF overridesNorms THEN overrideRet ELSE FALSE

\* GradientProblem::Evaluate forwards to the owned objective.
ProblemEvaluate(functionRet) == functionRet

\* GradientProblem::EvaluateGradientNorms forwards to the owned objective.
ProblemEvaluateGradientNorms(functionRet) == functionRet

\* GradientProblem::Plus without a parameterization: x + delta.
VectorAdd(x, delta) == [i \in 1..Len(x) |-> x[i] + delta[i]]

----------------------------------------------------------------------------
(* GradientProblemEvaluator *)

\* Evaluate with the CHECK left out.
EvaluateUnchecked(summary, jacobian, gradient, problemRet, t0, t1, t2, t3) ==
  LET spans == TimerSpans(t0, t1, t2, t3)
      typed == IncrementTimeBy(summary, CallTypeLabel(gradient), spans.call_type)
  IN [fatal |-> FALSE,
      problemCalls |-> 1,
      ret |-> problemRet,
      summary |-> IncrementTimeBy(typed, EvaluatorTotal, spans.total)]

\* Evaluate that reports success whatever the problem reports.
EvaluateSwallowsFailure(summary, jacobian, gradient, problemRet, t0, t1, t2, t3) ==
  IF jacobian # NULL
  THEN [fatal |-> TRUE, problemCalls |-> 0, ret |-> NULL, summary |-> summary]
  ELSE LET spans == TimerSpans(t0, t1, t2, t3)
           typed == IncrementTimeBy(summary, CallTypeLabel(gradient), spans.call_type)
       IN [fatal |-> FALSE,
           problemCalls |-> 1,
           ret |-> TRUE,
           summary |-> IncrementTimeBy(typed, EvaluatorTotal, spans.total)]

\* GradientProblemEvaluator::Evaluate. CHECK(jacobian == NULL) aborts the
\* process before either timer exists; otherwise the two timers are
\* constructed, problem_.Evaluate is called once and its flag returned, and
\* the timers record on destruction, call_type_timer first. problemRet is
\* what problem_.Evaluate returns when it is called.
EvaluateOutcome(summary, jacobian, gradient, problemRet, t0, t1, t2, t3) ==
  IF jacobian # NULL
  THEN [fatal |-> TRUE, problemCalls |-> 0, ret |-> NULL, summary |-> summary]
  ELSE LET spans == TimerSpans(t0, t1, t2, t3)
           typed == IncrementTimeBy(summary, CallTypeLabel(gradient), spans.call_type)
       IN [fatal |-> FALSE,
           problemCalls |-> 1,
           ret |-> problemRet,
           summary |-> IncrementTimeBy(typed, EvaluatorTotal, spans.total)]

\* EvaluateGradientNorms that always runs the shared default.
GradientNormsAlwaysDefault(problemRet, defaultRet) ==
  [ret |-> defaultRet, defaultCalls |-> 1]

\* GradientProblemEvaluator::EvaluateGradientNorms: the problem's capability
\* first, Evaluator::EvaluateGradientNorms only when that returned false.
GradientNormsOutcome(problemRet, defaultRet) ==
  IF problemRet
  THEN [ret |-> TRUE, defaultCalls |-> 0]
  ELSE [ret |-> defaultRet, defaultCalls |-> 1]

NumResidualsAsParameters == numParameters
NumResiduals == 1

NumEffectiveParameters == numLocalParameters

\* CreateJacobian returns nullptr.
CreateJacobianResult == NULL

----------------------------------------------------------------------------
(* Rationals <<numerator, denominator>>, denominator > 0, in lowest terms. *)
(* <<0, 0>> stands for the result of a division by zero and absorbs.       *)

RECURSIVE Gcd(_, _)
Gcd(a, b) == IF b = 0 THEN a ELSE Gcd(b, a % b)

NaN == <<0, 0>>
Norm(n, d) ==
  IF d = 0 THEN NaN
  ELSE IF n = 0 THEN <<0, 1>>
  ELSE IF d = 1 THEN <<n, 1>>
  ELSE CHOOSE r \in {<<(IF d < 0 THEN -n ELSE n) \div g, Abs(d) \div g>> :
                       g \in {Gcd(Abs(n), Abs(d))}} : TRUE
Rat(n) == <<n, 1>>
Finite(a) == a[2] # 0
RAdd(a, b) ==
  IF Finite(a) /\ Finite(b) THEN Norm(a[1] * b[2] + b[1] * a[2], a[2] * b[2]) ELSE NaN
RNeg(a) == IF Finite(a) THEN <<-a[1], a[2]>> ELSE NaN
RSub(a, b) == RAdd(a, RNeg(b))
RMul(a, b) == IF Finite(a) /\ Finite(b) THEN Norm(a[1] * b[1], a[2] * b[2]) ELSE NaN
RInv(a) == IF Finite(a) THEN Norm(a[2], a[1]) ELSE NaN
RDiv(a, b) == RMul(a, RInv(b))
RLeq(a, b) == a[1] * b[2] <= b[1] * a[2]
RLess(a, b) == a[1] * b[2] < b[1] * a[2]

RatVector(v) == [i \in 1..Len(v) |-> Rat(v[i])]
ZeroVector(n) == [i \in 1..n |-> Rat(0)]
FiniteVector(v) == \A i \in 1..Len(v) : Finite(v[i])

RECURSIVE DotUpTo(_, _, _)
DotUpTo(a, b, n) ==
  IF n = 0 THEN Rat(0)
  ELSE IF n = 1 THEN RMul(a[1], b[1])
  ELSE RAdd(DotUpTo(a, b, n - 1), RMul(a[n], b[n]))
Dot(a, b) == DotUpTo(a, b, Len(a))
RECURSIVE VScaleUpTo(_, _, _)
VScaleUpTo(c, a, n) ==
  IF n = 0 THEN <<>> ELSE Append(VScaleUpTo(c, a, n - 1), RMul(c, a[n]))
VScale(c, a) == VScaleUpTo(c, a, Len(a))

RECURSIVE VAddUpTo(_, _, _)
VAddUpTo(a, b, n) ==
  IF n = 0 THEN <<>> ELSE Append(VAddUpTo(a, b, n - 1), RAdd(a[n], b[n]))
VAdd(a, b) == VAddUpTo(a, b, Len(a))

RECURSIVE VNegUpTo(_, _)
VNegUpTo(a, n) == IF n = 0 THEN <<>> ELSE Append(VNegUpTo(a, n - 1), RNeg(a[n]))
VNeg(a) == VNegUpTo(a, Len(a))
VSub(a, b) == VAdd(a, VNeg(b))

----------------------------------------------------------------------------
(* The direction-update capability as the base class answers it *)

\* A base class that falls back to steepest descent by itself.
DefaultNextDirectionSteepest(current_gradient, scale, direction, dot) ==
  [ret |-> TRUE,
   updateContextCalls |-> 0,
   rightMultiplyCalls |-> 0,
   approximate_eigenvalue_scale |-> scale,
   search_direction |-> VNeg(current_gradient),
   search_direction_dot_current_gradient |->
     RNeg(Dot(current_gradient, current_gradient))]

\* FirstOrderFunction::NextDirection of the base class: returns false,
\* calls neither callback and writes through none of its out pointers.
DefaultNextDirection(current_gradient, scale, direction, dot) ==
  [ret |-> FALSE,
   updateContextCalls |-> 0,
   rightMultiplyCalls |-> 0,
   approximate_eigenvalue_scale |-> scale,
   search_direction |-> direction,
   search_direction_dot_current_gradient |-> dot]

\* GradientProblem::NextDirection and GradientProblemEvaluator::NextDirection
\* hand the objective's outcome back as it is.
ProblemNextDirection(functionOutcome) == functionOutcome
EvaluatorNextDirection(problemOutcome) == problemOutcome

----------------------------------------------------------------------------
(* The evaluator adapter driven by a minimizer *)

\* The clock's advance between two consecutive readings.
Ticks == {0, 1}

GradientArgs == {NULL, "buffer"}
JacobianArgs == {NULL, "matrix"}

InitProblem(direction) ==
  /\ numParameters \in 1..MaxParams
  /\ hasParameterization \in BOOLEAN
  /\ numLocalParameters \in
       (IF hasParameterization THEN 1..numParameters ELSE {numParameters})
  /\ overridesNorms \in BOOLEAN
  /\ overridesDirection = direction

InitEvaluator ==
  /\ execution_summary = [l \in {} |-> [calls |-> 0, time |-> 0]]
  /\ now = 0
  /\ halted = FALSE
  /\ residualCalls = 0
  /\ jacobianCalls = 0
  /\ gradient_squared_norm = 0
  /\ gradient_max_norm = 0

InitCaller ==
  /\ history = <<>>
  /\ approximate_eigenvalue_scale = Rat(1)
  /\ search_direction = ZeroVector(numParameters)
  /\ search_direction_dot_current_gradient = Rat(0)

Init ==
  /\ InitProblem(FALSE)
  /\ InitEvaluator
  /\ InitCaller
  /\ last = [op |-> "constructed"]

Evaluate ==
  /\ ~halted
  /\ \E jacobian \in JacobianArgs, gradient \in GradientArgs, functionRet \in BOOLEAN,
        d1 \in Ticks, d2 \in Ticks, d3 \in Ticks :
       /\ jacobian = NULL => CallCount(EvaluatorTotal) < MaxEvaluateCalls
       /\ now + d1 + d2 + d3 <= MaxClock
       /\ LET problemRet == ProblemEvaluate(functionRet)
              out == EvaluateOutcome(execution_summary, jacobian, gradient, problemRet,
                                     now, now + d1, now + d1 + d2, now + d1 + d2 + d3)
          IN /\ execution_summary' = out.summary
             /\ halted' = out.fatal
             /\ now' = IF out.fatal THEN now ELSE now + d1 + d2 + d3
             /\ residualCalls' =
                  IF jacobian = NULL /\ gradient = NULL THEN residualCalls + 1
                  ELSE residualCalls
             /\ jacobianCalls' =
                  IF jacobian = NULL /\ gradient # NULL THEN jacobianCalls + 1
                  ELSE jacobianCalls
             /\ last' = [op |-> "Evaluate", jacobian |-> jacobian, gradient |-> gradient,
                         functionRet |-> functionRet, problemRet |-> problemRet,
                         ret |-> out.ret, problemCalls |-> out.problemCalls]
  /\ UNCHANGED <<problemVars, normVars, directionVars>>

\* A Plus that is timed like Evaluate.
PlusTimed ==
  /\ ~halted
  /\ execution_summary' = IncrementTimeBy(execution_summary, "Evaluator::Plus", 0)
  /\ last' = [op |-> "Plus", ret |-> TRUE, x_plus_delta |-> NULL]
  /\ UNCHANGED <<problemVars, normVars, directionVars, now, halted, residualCalls,
                 jacobianCalls>>

\* GradientProblemEvaluator::Plus forwards to GradientProblem::Plus: the
\* parameterization's Plus when there is one, x + delta otherwise.
Plus ==
  /\ ~halted
  /\ \E x \in Points(numParameters), delta \in Deltas(numLocalParameters),
        parameterizationRet \in (IF hasParameterization THEN BOOLEAN ELSE {TRUE}) :
       last' = IF hasParameterization
               THEN [op |-> "Plus", ret |-> parameterizationRet, x_plus_delta |-> NULL]
               ELSE [op |-> "Plus", ret |-> TRUE, x_plus_delta |-> VectorAdd(x, delta)]
  /\ UNCHANGED <<problemVars, normVars, directionVars, statVars, halted>>

\* What an overriding objective may write as the two norms of g.
OverrideNorms(g) == {<<SquaredNorm(g), MaxNorm(g)>>, <<0, 0>>}

EvaluateGradientNorms ==
  /\ ~halted
  /\ \E g \in Vectors(numParameters), overrideRet \in BOOLEAN, defaultRet \in BOOLEAN :
       LET functionRet == FunctionGradientNorms(overrideRet)
           problemRet == ProblemEvaluateGradientNorms(functionRet)
           out == GradientNormsOutcome(problemRet, defaultRet)
       IN /\ last' = [op |-> "EvaluateGradientNorms", functionRet |-> functionRet,
                      problemRet |-> problemRet, defaultRet |-> defaultRet,
                      defaultCalls |-> out.defaultCalls, ret |-> out.ret]
          /\ IF problemRet
             THEN \E n \in OverrideNorms(g) :
                    /\ gradient_squared_norm' = n[1]
                    /\ gradient_max_norm' = n[2]
             ELSE IF out.defaultCalls = 1 /\ defaultRet
             THEN /\ gradient_squared_norm' = SquaredNorm(g)
                  /\ gradient_max_norm' = MaxNorm(g)
             ELSE UNCHANGED normVars
  /\ UNCHANGED <<problemVars, directionVars, statVars, halted>>

\* NextDirection on an objective that keeps the base class's NextDirection.
NextDirectionDefault ==
  /\ ~halted
  /\ ~overridesDirection
  /\ \E g \in Vectors(numParameters) :
       LET out == EvaluatorNextDirection(ProblemNextDirection(
                    DefaultNextDirection(RatVector(g), approximate_eigenvalue_scale,
                                         search_direction,
                                         search_direction_dot_current_gradient)))
       IN /\ last' = [op |-> "NextDirection", ret |-> out.ret,
                      current_gradient |-> RatVector(g),
                      updateContextCalls |-> out.updateContextCalls,
                      rightMultiplyCalls |-> out.rightMultiplyCalls]
          /\ approximate_eigenvalue_scale' = out.approximate_eigenvalue_scale
          /\ search_direction' = out.search_direction
          /\ search_direction_dot_current_gradient' =
               out.search_direction_dot_current_gradient
          /\ UNCHANGED history
  /\ UNCHANGED <<problemVars, normVars, statVars, halted>>

Getter(op, ret) ==
  /\ ~halted
  /\ last' = [op |-> op, ret |-> ret]
  /\ UNCHANGED <<problemVars, normVars, directionVars, statVars, halted>>

CreateJacobian == Getter("CreateJacobian", CreateJacobianResult)
GetNumParameters == Getter("NumParameters", numParameters)
GetNumEffectiveParameters == Getter("NumEffectiveParameters", NumEffectiveParameters)
GetNumResiduals == Getter("NumResiduals", NumResiduals)
Statistics == Getter("Statistics", execution_summary)

----------------------------------------------------------------------------
(* The direction update by two-loop recursion over the caller's history *)

\* The curvature threshold: small and positive.
Epsilon == <<1, 1000>>

\* The curvature screen of one history pair yielded by getRightMultiplyContext.
SkippedNever(c) == FALSE
Skipped(c) == RLeq(c.delta_x_dot_delta_gradient_it, Epsilon)

Rho(c) == RDiv(Rat(1), c.delta_x_dot_delta_gradient_it)

\* One step of the first pass on pair c: alpha = rho (s . q), q <- q - alpha y.
\* A skipped pair keeps q and gets no coefficient. st.divisors collects the
\* stored dot products divided by.
FirstPassStep(st, c) ==
  IF Skipped(c)
  THEN [q |-> st.q, alpha |-> Append(st.alpha, Rat(0)), divisors |-> st.divisors]
  ELSE CHOOSE next \in
         {[q |-> VSub(st.q, VScale(a, c.delta_gradient_history_col_it)),
           alpha |-> Append(st.alpha, a),
           divisors |-> st.divisors \cup {c.delta_x_dot_delta_gradient_it}] :
            a \in {RMul(Rho(c), Dot(c.delta_x_history_col_it, st.q))}} : TRUE

\* First pass over ctxs[k..], newest first. st.alpha holds the coefficients
\* of ctxs[1..k-1]. Each step's result is bound before the next step reads it.
RECURSIVE FirstPass(_, _, _)
FirstPass(st, ctxs, k) ==
  IF k > Len(ctxs) THEN st
  ELSE CHOOSE end \in {FirstPass(next, ctxs, k + 1) :
                         next \in {FirstPassStep(st, ctxs[k])}} : TRUE

\* The initial Hessian approximation: identity, or the eigenvalue scale.
InitialScaling(q, scale, use_approximate_eigenvalue_scaling) ==
  IF use_approximate_eigenvalue_scaling THEN VScale(scale, q) ELSE q

\* One step of the second pass on pair c with first-pass coefficient a:
\* beta = rho (y . r), r <- r + s (alpha - beta).
SecondPassStep(st, c, a) ==
  IF Skipped(c) THEN st
  ELSE CHOOSE next \in
         {[r |-> VAdd(st.r, VScale(coefficient, c.delta_x_history_col_it)),
           divisors |-> st.divisors \cup {c.delta_x_dot_delta_gradient_it}] :
            coefficient \in
              {RSub(a, RMul(Rho(c), Dot(c.delta_gradient_history_col_it, st.r)))}} : TRUE

\* Second pass over ctxs[1..k], oldest first.
RECURSIVE SecondPass(_, _, _, _)
SecondPass(st, ctxs, alpha, k) ==
  IF k = 0 THEN st
  ELSE CHOOSE end \in {SecondPass(next, ctxs, alpha, k - 1) :
                         next \in {SecondPassStep(st, ctxs[k], alpha[k])}} : TRUE

\* A fallback that hands back the gradient itself.
SteepestDescentUphill(current_gradient) == current_gradient
SteepestDescent(current_gradient) == VNeg(current_gradient)

\* The second half of the recursion, from the first pass's result.
ScaleAndSecondPass(first, ctxs, scale, use_approximate_eigenvalue_scaling) ==
  SecondPass([r |-> InitialScaling(first.q, scale, use_approximate_eigenvalue_scaling),
              divisors |-> first.divisors],
             ctxs, first.alpha, Len(ctxs))

\* The new direction from the current gradient and the pairs yielded by
\* getRightMultiplyContext, newest first, with the dot products divided by.
\* Without a pair that passes the screen it is the steepest descent fallback.
TwoLoop(current_gradient, ctxs, scale, use_approximate_eigenvalue_scaling) ==
  IF \A k \in 1..Len(ctxs) : Skipped(ctxs[k])
  THEN [direction |-> SteepestDescent(current_gradient), divisors |-> {}]
  ELSE CHOOSE loop \in
         {[direction |-> VNeg(second.r), divisors |-> second.divisors] :
            second \in
              {ScaleAndSecondPass(
                 FirstPass([q |-> current_gradient, alpha |-> <<>>, divisors |-> {}],
                           ctxs, 1),
                 ctxs, scale, use_approximate_eigenvalue_scaling)}} : TRUE

\* The caller's history buffer: at most MaxRank slots, the oldest overwritten.
RecordSlot(slots, slot) ==
  IF Len(slots) < MaxRank THEN Append(slots, slot) ELSE Append(Tail(slots), slot)

\* The slots in the order getRightMultiplyContext yields them, newest first.
NewestFirst(slots) == [k \in 1..Len(slots) |-> slots[Len(slots) + 1 - k]]

\* What NextDirection hands back once the recursion is done: success when the
\* direction is a finite descent direction.
UpdaterOutcome(loop, current_gradient, ctxs, slots, scale) ==
  LET dot == Dot(loop.direction, current_gradient)
  IN [ret |-> FiniteVector(loop.direction) /\ Finite(dot) /\ RLess(dot, Rat(0)),
      updateContextCalls |-> 1,
      rightMultiplyCalls |-> Len(ctxs) + 1,
      divisors |-> loop.divisors,
      history |-> slots,
      approximate_eigenvalue_scale |-> scale,
      search_direction |-> loop.direction,
      search_direction_dot_current_gradient |-> dot]

\* NextDirection of an objective that implements the capability. The update
\* context is asked for once; when it is valid the step is written to the
\* newest slot together with the eigenvalue scale the policy in use picked.
\* getRightMultiplyContext is then called until it reports invalid.
UpdaterNextDirection(previous_search_direction, previous_step_size, current_gradient, previous_gradient, contextValid, slots, scale, policyScale, use_approximate_eigenvalue_scaling) ==
  LET delta_x == VScale(Rat(previous_step_size), previous_search_direction)
      delta_gradient == VSub(current_gradient, previous_gradient)
      slot == [delta_x_history_col_it |-> delta_x,
               delta_gradient_history_col_it |-> delta_gradient,
               delta_x_dot_delta_gradient_it |-> Dot(delta_x, delta_gradient)]
      slots2 == IF contextValid THEN RecordSlot(slots, slot) ELSE slots
      scale2 == IF contextValid THEN policyScale ELSE scale
      ctxs == NewestFirst(slots2)
  IN CHOOSE out \in
       {UpdaterOutcome(loop, current_gradient, ctxs, slots2, scale2) :
          loop \in {TwoLoop(current_gradient, ctxs, scale2,
                            use_approximate_eigenvalue_scaling)}} : TRUE

Gradients == {<<1, 0>>, <<0, 1>>, <<0, 0>>}
PreviousDirections == {<<-1, 0>>, <<1, -1>>}
StepSizes == {1}
ScalePolicies == {Rat(1), <<1, 2>>}

\* The minimizer has evaluated the first gradient and made no direction
\* update yet; use_approximate_eigenvalue_scaling is an option set once.
InitLBFGS ==
  /\ numParameters = 2
  /\ numLocalParameters = 2
  /\ hasParameterization = FALSE
  /\ overridesNorms = FALSE
  /\ overridesDirection = TRUE
  /\ InitEvaluator
  /\ InitCaller
  /\ \E g \in Gradients, use \in BOOLEAN :
       last = [op |-> "start",
               current_gradient |-> RatVector(g),
               use_approximate_eigenvalue_scaling |-> use]

\* One iteration of the minimizer: the previous gradient is the previous
\* iteration's current gradient.
NextDirectionUpdater ==
  /\ ~halted
  /\ overridesDirection
  /\ \E g \in Gradients, previous \in PreviousDirections, step \in StepSizes,
        contextValid \in BOOLEAN, policyScale \in ScalePolicies :
       \* an invalid context gives the policy nothing to write
       /\ ~contextValid => policyScale = approximate_eigenvalue_scale
       /\ \E out \in {EvaluatorNextDirection(ProblemNextDirection(
                    UpdaterNextDirection(RatVector(previous), step, RatVector(g),
                                         last.current_gradient, contextValid, history,
                                         approximate_eigenvalue_scale, policyScale,
                                         last.use_approximate_eigenvalue_scaling)))} :
          /\ last' = [op |-> "NextDirection", ret |-> out.ret,
                      current_gradient |-> RatVector(g),
                      use_approximate_eigenvalue_scaling |->
                        last.use_approximate_eigenvalue_scaling,
                      contextValid |-> contextValid,
                      updateContextCalls |-> out.updateContextCalls,
                      rightMultiplyCalls |-> out.rightMultiplyCalls,
                      divisors |-> out.divisors]
          /\ history' = out.history
          /\ approximate_eigenvalue_scale' = out.approximate_eigenvalue_scale
          /\ search_direction' = out.search_direction
          /\ search_direction_dot_current_gradient' =
               out.search_direction_dot_current_gradient
  /\ UNCHANGED <<problemVars, normVars, statVars, halted>>

NextLBFGS == NextDirectionUpdater

SpecLBFGS == InitLBFGS /\ [][NextLBFGS]_vars

----------------------------------------------------------------------------

Next ==
  \/ Evaluate
  \/ Plus
  \/ EvaluateGradientNorms
  \/ NextDirectionDefault
  \/ CreateJacobian
  \/ GetNumParameters
  \/ GetNumEffectiveParameters
  \/ GetNumResiduals
  \/ Statistics

Spec == Init /\ [][Next]_vars

----------------------------------------------------------------------------
(* Properties of the evaluator adapter, checked under Spec *)

\* C1: an Evaluate call given a jacobian is fatal: the process is halted, no
\* value is returned and the problem's Evaluate is not invoked for that call,
\* whether or not a gradient was requested.
FatalOnJacobian ==
  (last.op = "Evaluate" /\ last.jacobian # NULL)
    => (halted /\ last.ret = NULL /\ last.problemCalls = 0)

FatalOnJacobianWitness ==
  /\ last.op = "Evaluate"
  /\ last.jacobian # NULL
  /\ last.gradient # NULL
  /\ halted
  /\ CallCount(EvaluatorTotal) = 2

\* C2: the call count under "Evaluator::Residual" is the number of Evaluate
\* calls made without a gradient, the one under "Evaluator::Jacobian" the
\* number made with a gradient, and the one under "Evaluator::Total" their
\* sum, whatever the calls returned.
CallCountsMatchCalls ==
  /\ CallCount(EvaluatorResidual) = residualCalls
  /\ CallCount(EvaluatorJacobian) = jacobianCalls
  /\ CallCount(EvaluatorTotal) = residualCalls + jacobianCalls

CallCountsWitness ==
  /\ CallCount(EvaluatorResidual) = 1
  /\ CallCount(EvaluatorJacobian) = 1
  /\ CallCount(EvaluatorTotal) = 2
  /\ last.op = "Evaluate"
  /\ last.ret = FALSE

\* C3: the time accumulated under "Evaluator::Total" is at least the sum of
\* the times accumulated under "Evaluator::Residual" and "Evaluator::Jacobian".
TotalTimeCoversCallTypes ==
  TotalTime(EvaluatorTotal) >= TotalTime(EvaluatorResidual) + TotalTime(EvaluatorJacobian)

TotalTimeWitness ==
  /\ TotalTime(EvaluatorResidual) > 0
  /\ TotalTime(EvaluatorJacobian) > 0
  /\ TotalTime(EvaluatorTotal) > TotalTime(EvaluatorResidual) + TotalTime(EvaluatorJacobian)

\* C4: an Evaluate call without a jacobian returns the flag the problem's
\* Evaluate returned, which is false exactly when the objective reported
\* failure, and calls the problem's Evaluate once.
EvaluateFlagPropagated ==
  (last.op = "Evaluate" /\ last.jacobian = NULL)
    => /\ last.ret = last.problemRet
       /\ (last.ret = FALSE) <=> (last.functionRet = FALSE)
       /\ last.problemCalls = 1

EvaluateFailureWitness ==
  /\ last.op = "Evaluate"
  /\ last.jacobian = NULL
  /\ last.functionRet = FALSE
  /\ last.ret = FALSE
  /\ ~halted

\* C5: EvaluateGradientNorms returns true without running the shared default
\* when the problem's own capability returned true, and otherwise runs the
\* shared default once and returns its result; an objective that does not
\* override the capability always takes the second path.
GradientNormsFallback ==
  last.op = "EvaluateGradientNorms"
    => /\ last.problemRet => (last.ret /\ last.defaultCalls = 0)
       /\ ~last.problemRet => (last.defaultCalls = 1 /\ last.ret = last.defaultRet)
       /\ ~overridesNorms => ~last.problemRet

GradientNormsWitness ==
  /\ last.op = "EvaluateGradientNorms"
  /\ ~overridesNorms
  /\ last.defaultCalls = 1
  /\ last.ret
  /\ numParameters = 2
  /\ gradient_squared_norm = 5
  /\ gradient_max_norm = 2

\* C8: NextDirection on an objective that keeps the base class's
\* implementation returns false, calls neither callback and leaves the
\* search direction, the eigenvalue scale, the directional derivative and
\* the history as they were.
DefaultDirectionUnsupported ==
  [][(last'.op = "NextDirection" /\ ~overridesDirection)
       => /\ last'.ret = FALSE
          /\ last'.updateContextCalls = 0
          /\ last'.rightMultiplyCalls = 0
          /\ UNCHANGED directionVars]_vars

DefaultDirectionWitness ==
  /\ last.op = "NextDirection"
  /\ ~overridesDirection
  /\ last.ret = FALSE
  /\ last.current_gradient # ZeroVector(numParameters)
  /\ search_direction = ZeroVector(numParameters)

\* C9: NumResiduals returns 1, whatever the parameter counts and whatever
\* calls came before.
NumResidualsIsOne == last.op = "NumResiduals" => last.ret = 1

NumResidualsWitness ==
  /\ last.op = "NumResiduals"
  /\ numParameters = 2
  /\ numLocalParameters = 1
  /\ CallCount(EvaluatorTotal) = 2

\* C10: only an Evaluate call without a jacobian changes the statistics; every
\* other call, and an Evaluate call that is fatal, leaves them as they were.
StatisticsChangeOnlyInEvaluate ==
  [][execution_summary' # execution_summary
       => (last'.op = "Evaluate" /\ last'.jacobian = NULL)]_vars

StatisticsFrameWitness ==
  /\ halted
  /\ last.op = "Evaluate"
  /\ last.gradient = NULL
  /\ CallCount(EvaluatorTotal) = 1
  /\ CallCount(EvaluatorJacobian) = 1

----------------------------------------------------------------------------
(* Properties of the direction update, checked under SpecLBFGS *)

\* C6: with an empty history (the first getRightMultiplyContext call reports
\* invalid) the direction is the negated current gradient and the directional
\* derivative is minus the gradient's squared norm.
EmptyHistorySteepestDescent ==
  (last.op = "NextDirection" /\ last.rightMultiplyCalls = 1)
    => /\ search_direction = VNeg(last.current_gradient)
       /\ search_direction_dot_current_gradient =
            RNeg(Dot(last.current_gradient, last.current_gradient))

EmptyHistoryWitness ==
  /\ last.op = "NextDirection"
  /\ last.rightMultiplyCalls = 1
  /\ ~last.contextValid
  /\ last.use_approximate_eigenvalue_scaling
  /\ last.ret
  /\ search_direction = <<Rat(0), Rat(-1)>>
  /\ search_direction_dot_current_gradient = Rat(-1)

\* C7: a pair whose stored dot product is at or below the threshold is
\* skipped: no pass divides by it, the outputs are finite, and the direction
\* and the returned flag are those of the same history without such pairs;
\* when no pair is left the direction is the negated gradient.
PassesCurvature(c) == RLess(Epsilon, c.delta_x_dot_delta_gradient_it)

CurvatureScreen ==
  last.op = "NextDirection"
    => LET kept == SelectSeq(NewestFirst(history), PassesCurvature)
           reference == TwoLoop(last.current_gradient, kept,
                                approximate_eigenvalue_scale,
                                last.use_approximate_eigenvalue_scaling).direction
       IN /\ \A d \in last.divisors : RLess(Epsilon, d)
          /\ FiniteVector(search_direction)
          /\ Finite(search_direction_dot_current_gradient)
          /\ search_direction = reference
          /\ last.ret = RLess(Dot(reference, last.current_gradient), Rat(0))
          /\ kept = <<>> => search_direction = VNeg(last.current_gradient)

CurvatureScreenWitness ==
  /\ last.op = "NextDirection"
  /\ Len(history) = 2
  /\ history[2].delta_x_dot_delta_gradient_it[1] < 0
  /\ PassesCurvature(history[1])
  /\ last.divisors = {history[1].delta_x_dot_delta_gradient_it}
  /\ search_direction # VNeg(last.current_gradient)
  /\ last.ret

====
